---- MODULE Spec2Model ----
(***************************************************************************)
(* Model of libOS' bits.h (the default, big-endian implementation of the   *)
(* bit / flag / nibble / multi-byte / array macros).                       *)
(*                                                                         *)
(* A C value is modelled by its bit pattern: a sequence of bits, least     *)
(* significant first, whose length is the width of its type (uint8_t: 8,   *)
(* uint16_t: 16, int / uint32_t: 32, uint64_t: 64).  Bit i of x (counted   *)
(* from 0) is x[i + 1].  A byte of the buffer is a number in 0..255.       *)
(***************************************************************************)
EXTENDS Integers, Sequences, FiniteSets, TLC

VARIABLES
    data,     \* the caller's byte buffer (uint8_t[]); data[o + 1] is the byte at offset o
    value,    \* the caller's lvalue handed to the flag / mask / nibble macros
    args,     \* the caller's argument values of a call of a pure macro
    ret,      \* what the last expression macro evaluated to (<<>>: nothing)
    op,       \* the last macro invocation: its name, arguments, and the state before it
    prev,     \* the macro invocation before op
    steps,    \* number of macro invocations so far
    pc,       \* where the calling program is
    status,   \* "ok", or "trap" once an undefined operation aborted a checked build
    cursor,   \* the caller's variable i that an argument expression i or i++ reads
    evals,    \* how often the last invocation evaluated each of its argument expressions
    threads,  \* the threads of the concurrent program: operation, progress, registers
    output    \* the log entries printed so far (stdout of the stdlib platform)

vars == <<data, value, args, ret, op, prev, steps, pc, status, cursor, evals, threads,
          output>>

----------------------------------------------------------------------------
(* Bounds of the model *)

MaxOps == 2      \* macro invocations per run of the array program
BufLen == 5      \* length of the byte buffer
ThreadBufLen == 8    \* length of the byte buffer the two threads share
MaxLogs == 3     \* log statements per run of the logging program

----------------------------------------------------------------------------
(* C integer arithmetic on bit patterns *)

IntBits == 32    \* width of int and unsigned int, the types of the integer promotions

Max(a, b) == IF a >= b THEN a ELSE b

\* Seq(f): the function f over 1..n as a sequence
Vec(f) == f \o <<>>

\* the pattern of w bits of the number n, 0 <= n < 2^31
FromNat(n, w) == Vec([i \in 1..w |-> IF i > 31 THEN 0 ELSE (n \div (2 ^ (i - 1))) % 2])

\* the number a pattern stands for (patterns below 2^31 only)
RECURSIVE ToNat(_)
ToNat(x) == IF x = <<>> THEN 0 ELSE x[1] + 2 * ToNat(Tail(x))

\* conversion to the unsigned type of w bits (a cast, or a store into an lvalue
\* of that type) of an unsigned or non-negative operand: truncates or zero-extends
Conv(x, w) == Vec([i \in 1..w |-> IF i <= Len(x) THEN x[i] ELSE 0])

\* integer promotion: a narrower operand becomes an int
Promote(x) == IF Len(x) < IntBits THEN Conv(x, IntBits) ELSE x

\* an integer constant such as 0xFF or 1, of type int
Lit(n) == FromNat(n, IntBits)

\* a & b, after the usual arithmetic conversions
BitAnd(a, b) ==
    LET w == Max(Len(Promote(a)), Len(Promote(b)))
        x == Conv(a, w)
        y == Conv(b, w)
    IN  Vec([i \in 1..w |-> x[i] * y[i]])

\* a | b
BitOr(a, b) ==
    LET w == Max(Len(Promote(a)), Len(Promote(b)))
        x == Conv(a, w)
        y == Conv(b, w)
    IN  Vec([i \in 1..w |-> IF x[i] + y[i] > 0 THEN 1 ELSE 0])

\* ~a
BitNot(a) ==
    LET p == Promote(a)
    IN  Vec([i \in 1..Len(p) |-> 1 - p[i]])

\* a >> n of an unsigned or non-negative operand
Shr(a, n) ==
    LET p == Promote(a)
    IN  Vec([i \in 1..Len(p) |-> IF i + n <= Len(p) THEN p[i + n] ELSE 0])

\* a << n where no set bit leaves the type (always so for an unsigned type,
\* whose shifted-out bits are lost)
Shl(a, n) ==
    LET p == Promote(a)
    IN  Vec([i \in 1..Len(p) |-> IF i - n >= 1 THEN p[i - n] ELSE 0])

\* a == b
Eq(a, b) ==
    LET w == Max(Len(Promote(a)), Len(Promote(b)))
    IN  Conv(a, w) = Conv(b, w)

\* the int 1 or 0 a comparison or && yields
CBool(b) == Lit(IF b THEN 1 ELSE 0)

\* outcome of an operation: its value, or a trap (the build aborts the program)
Defined(v) == [trap |-> FALSE, val |-> v]
Trapped == [trap |-> TRUE, val |-> <<>>]

\* a << n of an int operand a >= 0, 0 <= n < IntBits.  The behaviour is undefined
\* when a * 2^n is not representable in int, i.e. a set bit reaches the sign bit
\* or beyond (C11 6.5.7p4): a plain build yields the shifted bit pattern, a build
\* with shift checking (-fsanitize=shift with trapping) aborts.
ShlInt(a, n) ==
    IF \E i \in 1..IntBits : a[i] = 1 /\ i + n >= IntBits
    THEN {Defined(Shl(a, n)), Trapped}
    ELSE {Defined(Shl(a, n))}

----------------------------------------------------------------------------
(* Bit / flag codec *)

GET_MASK(v, mask) == BitAnd(v, mask)

HAS_MASK_zeroMaskMatches(v, mask) == CBool(Eq(GET_MASK(v, mask), mask))

HAS_MASK(v, mask) == CBool(Eq(GET_MASK(v, mask), mask) /\ ~Eq(mask, Lit(0)))

ONLY_MASK_supersetMatches(v, mask) == CBool(Eq(GET_MASK(v, mask), mask))

ONLY_MASK(v, mask) == CBool(Eq(GET_MASK(v, mask), mask) /\ Eq(BitAnd(v, mask), v))

\* the mutating macros yield the new content of the lvalue v
SET_MASK(v, mask) == Conv(BitOr(BitAnd(v, BitNot(mask)), mask), Len(v))

CLEAR_MASK_keepsMask(v, mask) == Conv(BitAnd(v, mask), Len(v))

CLEAR_MASK(v, mask) == Conv(BitAnd(v, BitNot(mask)), Len(v))

SET_MASKED_VALUE_unmaskedValue(v, set_mask, set_value) ==
    Conv(BitOr(BitAnd(v, BitNot(set_mask)), set_value), Len(v))

\* set_mask is the value of the argument expression (a primary expression)
SET_MASKED_VALUE(v, set_mask, set_value) ==
    Conv(BitOr(BitAnd(v, BitNot(set_mask)), BitAnd(set_value, set_mask)), Len(v))

\* the macro invoked with the argument expression m1 | m2 as set_mask: the
\* parameter is substituted as written, (~set_mask) becomes (~m1 | m2) and
\* (set_mask) becomes (m1 | m2)
SET_MASKED_VALUE_orMask(v, m1, m2, set_value) ==
    Conv(BitOr(BitAnd(v, BitOr(BitNot(m1), m2)), BitAnd(set_value, BitOr(m1, m2))), Len(v))

\* the flag macros hand the int expression 1 << flag_pos on as the mask
FlagMask(flag_pos) == ShlInt(Lit(1), flag_pos)

HAS_FLAG(v, flag_pos) ==
    { IF m.trap THEN Trapped ELSE Defined(HAS_MASK(v, m.val)) : m \in FlagMask(flag_pos) }

ONLY_FLAG(v, flag_pos) ==
    { IF m.trap THEN Trapped
      ELSE Defined(CBool(HAS_MASK(v, m.val) = Lit(1) /\ Eq(BitAnd(v, m.val), v)))
      : m \in FlagMask(flag_pos) }

SET_FLAG(v, flag_pos) ==
    { IF m.trap THEN Trapped ELSE Defined(SET_MASK(v, m.val)) : m \in FlagMask(flag_pos) }

CLEAR_FLAG(v, flag_pos) ==
    { IF m.trap THEN Trapped ELSE Defined(CLEAR_MASK(v, m.val)) : m \in FlagMask(flag_pos) }

----------------------------------------------------------------------------
(* Nibble codec *)

GET_LOWER_NIBBLE(v) == BitAnd(v, Lit(15))

GET_UPPER_NIBBLE_noShift(v) == BitAnd(v, Lit(15))

GET_UPPER_NIBBLE(v) == BitAnd(Shr(v, 4), Lit(15))

SET_LOWER_NIBBLE_wholeArgument(v, nibble) ==
    Conv(BitOr(BitAnd(v, Lit(240)), Conv(nibble, 8)), Len(v))

SET_LOWER_NIBBLE(v, nibble) ==
    Conv(BitOr(BitAnd(v, Lit(240)), BitAnd(Conv(nibble, 8), Lit(15))), Len(v))

SET_UPPER_NIBBLE_noShift(v, nibble) ==
    Conv(BitOr(BitAnd(v, Lit(15)), BitAnd(Conv(nibble, 8), Lit(15))), Len(v))

SET_UPPER_NIBBLE(v, nibble) ==
    Conv(BitOr(BitAnd(v, Lit(15)), Shl(BitAnd(Conv(nibble, 8), Lit(15)), 4)), Len(v))

----------------------------------------------------------------------------
(* Multi-byte combine.  The result is the value of the macro's expression,   *)
(* an int for COMBINE_BYTES_16 and a uint32_t for COMBINE_BYTES_32.           *)

COMBINE_BYTES_16_byteCast(higher, lower) ==
    BitOr(Conv(lower, 8), Shl(Conv(higher, 8), 8))

COMBINE_BYTES_16_lowerFirst(higher, lower) ==
    BitOr(Conv(higher, 16), Shl(Conv(lower, 16), 8))

COMBINE_BYTES_16(higher, lower) ==
    BitOr(Conv(lower, 16), Shl(Conv(higher, 16), 8))

COMBINE_BYTES_32_lowerFirst(higher, higher_middle, lower_middle, lower) ==
    BitOr(Conv(COMBINE_BYTES_16(higher_middle, higher), 32),
          Shl(Conv(COMBINE_BYTES_16(lower, lower_middle), 32), 16))

COMBINE_BYTES_32(higher, higher_middle, lower_middle, lower) ==
    BitOr(Conv(COMBINE_BYTES_16(lower_middle, lower), 32),
          Shl(Conv(COMBINE_BYTES_16(higher, higher_middle), 32), 16))

----------------------------------------------------------------------------
(* Array codec.  d is the buffer, byte_offset counts from 0.  Each operator  *)
(* yields the buffer (or the value) the macro leaves.                        *)

\* *(uint8_t*)p = e
Store(e) == ToNat(Conv(e, 8))

\* *(uint8_t*)p
Load(byte) == FromNat(byte, 8)

SET_16_IN_ARRAY_hostOrder(d, v, byte_offset) ==
    LET val == Conv(v, 16)
        d1  == [d  EXCEPT ![byte_offset + 1 + 1] = Store(BitAnd(Shr(val, 8), Lit(255)))]
        d2  == [d1 EXCEPT ![byte_offset + 0 + 1] = Store(BitAnd(Shr(val, 0), Lit(255)))]
    IN  d2

SET_16_IN_ARRAY_noTruncation(d, v, byte_offset) ==
    LET d1  == [d  EXCEPT ![byte_offset + 0 + 1] = Store(BitAnd(Shr(v, Len(v) - 8), Lit(255)))]
        d2  == [d1 EXCEPT ![byte_offset + 1 + 1] = Store(BitAnd(Shr(v, Len(v) - 16), Lit(255)))]
    IN  d2

SET_16_IN_ARRAY(d, v, byte_offset) ==
    LET val == Conv(v, 16)
        d1  == [d  EXCEPT ![byte_offset + 0 + 1] = Store(BitAnd(Shr(val, 8), Lit(255)))]
        d2  == [d1 EXCEPT ![byte_offset + 1 + 1] = Store(BitAnd(Shr(val, 0), Lit(255)))]
    IN  d2

SET_32_IN_ARRAY_lowByteAtStart(d, v, byte_offset) ==
    LET val == Conv(v, 32)
        d1  == [d  EXCEPT ![byte_offset + 0 + 1] = Store(BitAnd(Shr(val, 24), Lit(255)))]
        d2  == [d1 EXCEPT ![byte_offset + 1 + 1] = Store(BitAnd(Shr(val, 16), Lit(255)))]
        d3  == [d2 EXCEPT ![byte_offset + 2 + 1] = Store(BitAnd(Shr(val,  8), Lit(255)))]
        d4  == [d3 EXCEPT ![0 + 1] = Store(BitAnd(Shr(val,  0), Lit(255)))]
    IN  d4

SET_32_IN_ARRAY(d, v, byte_offset) ==
    LET val == Conv(v, 32)
        d1  == [d  EXCEPT ![byte_offset + 0 + 1] = Store(BitAnd(Shr(val, 24), Lit(255)))]
        d2  == [d1 EXCEPT ![byte_offset + 1 + 1] = Store(BitAnd(Shr(val, 16), Lit(255)))]
        d3  == [d2 EXCEPT ![byte_offset + 2 + 1] = Store(BitAnd(Shr(val,  8), Lit(255)))]
        d4  == [d3 EXCEPT ![byte_offset + 3 + 1] = Store(BitAnd(Shr(val,  0), Lit(255)))]
    IN  d4

GET_16_IN_ARRAY_lowFirst(d, byte_offset) ==
    Conv(BitOr(Shl(Conv(Load(d[byte_offset + 1 + 1]), 16), 8),
               Shl(Conv(Load(d[byte_offset + 0 + 1]), 16), 0)), 16)

GET_16_IN_ARRAY(d, byte_offset) ==
    Conv(BitOr(Shl(Conv(Load(d[byte_offset + 0 + 1]), 16), 8),
               Shl(Conv(Load(d[byte_offset + 1 + 1]), 16), 0)), 16)

GET_32_IN_ARRAY_hostOrder(d, byte_offset) ==
    Conv(BitOr(BitOr(Shl(Conv(Load(d[byte_offset + 3 + 1]), 32), 24),
                     Shl(Conv(Load(d[byte_offset + 2 + 1]), 32), 16)),
               BitOr(Shl(Conv(Load(d[byte_offset + 1 + 1]), 32),  8),
                     Shl(Conv(Load(d[byte_offset + 0 + 1]), 32),  0))), 32)

GET_32_IN_ARRAY(d, byte_offset) ==
    Conv(BitOr(BitOr(Shl(Conv(Load(d[byte_offset + 0 + 1]), 32), 24),
                     Shl(Conv(Load(d[byte_offset + 1 + 1]), 32), 16)),
               BitOr(Shl(Conv(Load(d[byte_offset + 2 + 1]), 32),  8),
                     Shl(Conv(Load(d[byte_offset + 3 + 1]), 32),  0))), 32)

REVERSE_BYTES_IN_ARRAY_16BIT_noTemp(d, byte_offset) ==
    LET d1   == [d  EXCEPT ![byte_offset + 0 + 1] = d[byte_offset + 1 + 1]]
        d2   == [d1 EXCEPT ![byte_offset + 1 + 1] = d1[byte_offset + 0 + 1]]
    IN  d2

REVERSE_BYTES_IN_ARRAY_16BIT(d, byte_offset) ==
    LET temp == d[byte_offset + 1]
        d1   == [d  EXCEPT ![byte_offset + 0 + 1] = d[byte_offset + 1 + 1]]
        d2   == [d1 EXCEPT ![byte_offset + 1 + 1] = temp]
    IN  d2

REVERSE_BYTES_IN_ARRAY_32BIT_outerOnly(d, byte_offset) ==
    LET temp1 == d[byte_offset + 0 + 1]
        d1    == [d  EXCEPT ![byte_offset + 0 + 1] = d[byte_offset + 3 + 1]]
        d2    == [d1 EXCEPT ![byte_offset + 3 + 1] = temp1]
    IN  d2

REVERSE_BYTES_IN_ARRAY_32BIT_staleTemp(d, byte_offset) ==
    LET temp1 == d[byte_offset + 0 + 1]
        d1    == [d  EXCEPT ![byte_offset + 0 + 1] = d[byte_offset + 3 + 1]]
        d2    == [d1 EXCEPT ![byte_offset + 3 + 1] = temp1]
        d3    == [d2 EXCEPT ![byte_offset + 1 + 1] = d2[byte_offset + 2 + 1]]
        d4    == [d3 EXCEPT ![byte_offset + 2 + 1] = temp1]
    IN  d4

REVERSE_BYTES_IN_ARRAY_32BIT(d, byte_offset) ==
    LET temp1 == d[byte_offset + 0 + 1]
        d1    == [d  EXCEPT ![byte_offset + 0 + 1] = d[byte_offset + 3 + 1]]
        d2    == [d1 EXCEPT ![byte_offset + 3 + 1] = temp1]
        temp2 == d2[byte_offset + 1 + 1]
        d3    == [d2 EXCEPT ![byte_offset + 1 + 1] = d2[byte_offset + 2 + 1]]
        d4    == [d3 EXCEPT ![byte_offset + 2 + 1] = temp2]
    IN  d4

----------------------------------------------------------------------------
(* The calling programs.  A macro invocation is recorded in op: its name,   *)
(* its arguments in the macro's parameter order (without the buffer or the   *)
(* lvalue), and the buffer and the lvalue as they were before it.            *)

\* the state of the callers with side effects and of the threads, where unused
NoCursor == [p |-> 0, i |-> 0]
NoEvals == [data |-> 0, value |-> 0, byte_offset |-> 0]
NoThreads == <<>>
NoOutput == <<>>
Unused == cursor = NoCursor /\ evals = NoEvals /\ threads = NoThreads /\ output = NoOutput

NoOp == [name |-> "none", arg |-> <<>>, oldData |-> <<>>, oldValue |-> <<>>,
         oldCursor |-> NoCursor]

Invoke(name, arg) == [name |-> name, arg |-> arg, oldData |-> data, oldValue |-> value,
                      oldCursor |-> cursor]

\* the value with the given bytes, most significant first, as the literal is written
RECURSIVE WordOf(_)
WordOf(bytes) ==
    IF bytes = <<>> THEN <<>> ELSE WordOf(Tail(bytes)) \o FromNat(Head(bytes), 8)

\* ---- callers of the multi-byte combine: one call on arguments chosen up front
ArgVals == {0, 1, 17, 85, 170, 255, 256, 511, 65535, 65536, 74565}

InitCombine ==
    /\ args \in ArgVals \X ArgVals \X ArgVals \X ArgVals
    /\ data = <<>> /\ value = <<>>
    /\ ret = <<>> /\ op = NoOp /\ prev = NoOp /\ steps = 0
    /\ pc = "call" /\ status = "ok"
    /\ Unused

Combine16 ==
    /\ pc = "call"
    /\ ret' = COMBINE_BYTES_16(Lit(args[1]), Lit(args[2]))
    /\ op' = Invoke("COMBINE_BYTES_16", <<args[1], args[2]>>)
    /\ prev' = op /\ steps' = steps + 1 /\ pc' = "done"
    /\ UNCHANGED <<data, value, args, status, cursor, evals, threads, output>>

Combine32 ==
    /\ pc = "call"
    /\ ret' = COMBINE_BYTES_32(Lit(args[1]), Lit(args[2]), Lit(args[3]), Lit(args[4]))
    /\ op' = Invoke("COMBINE_BYTES_32", args)
    /\ prev' = op /\ steps' = steps + 1 /\ pc' = "done"
    /\ UNCHANGED <<data, value, args, status, cursor, evals, threads, output>>

NextCombine == Combine16 \/ Combine32

SpecCombine == InitCombine /\ [][NextCombine]_vars

\* ---- callers of the array codec: up to MaxOps invocations on one buffer
TestBuffer == [i \in 1..BufLen |-> 17 * i]
FullBuffer == [i \in 1..BufLen |-> 255]

Words16 == { WordOf(<<0, 0>>), WordOf(<<18, 52>>), WordOf(<<171, 205>>),
             WordOf(<<187, 221, 204, 170>>) }
Words32 == { WordOf(<<0, 0, 0, 0>>), WordOf(<<18, 52, 86, 120>>),
             WordOf(<<187, 170, 204, 238>>),
             WordOf(<<0, 0, 0, 255, 187, 221, 204, 170>>) }

\* the offsets the caller may pass: the word lies within the buffer
Offsets(size) == { o \in 0..BufLen : o + size <= Len(data) }

InitArray ==
    /\ data \in {TestBuffer, FullBuffer}
    /\ value = <<>> /\ args = <<>>
    /\ ret = <<>> /\ op = NoOp /\ prev = NoOp /\ steps = 0
    /\ pc = "run" /\ status = "ok"
    /\ Unused

CanStep == steps < MaxOps

ArrayStep(name, arg, newData, newRet) ==
    /\ CanStep
    /\ data' = newData
    /\ ret' = newRet
    /\ op' = Invoke(name, arg)
    /\ prev' = op /\ steps' = steps + 1
    /\ UNCHANGED <<value, args, pc, status, cursor, evals, threads, output>>

Set16 ==
    /\ CanStep
    /\ \E v \in Words16, o \in Offsets(2) :
           ArrayStep("SET_16_IN_ARRAY", <<v, o>>, SET_16_IN_ARRAY(data, v, o), <<>>)

Set32 ==
    /\ CanStep
    /\ \E v \in Words32, o \in Offsets(4) :
           ArrayStep("SET_32_IN_ARRAY", <<v, o>>, SET_32_IN_ARRAY(data, v, o), <<>>)

Get16 ==
    /\ CanStep
    /\ \E o \in Offsets(2) :
           ArrayStep("GET_16_IN_ARRAY", <<o>>, data, GET_16_IN_ARRAY(data, o))

Get32 ==
    /\ CanStep
    /\ \E o \in Offsets(4) :
           ArrayStep("GET_32_IN_ARRAY", <<o>>, data, GET_32_IN_ARRAY(data, o))

Reverse16 ==
    /\ CanStep
    /\ \E o \in Offsets(2) :
           ArrayStep("REVERSE_BYTES_IN_ARRAY_16BIT", <<o>>,
                     REVERSE_BYTES_IN_ARRAY_16BIT(data, o), <<>>)

Reverse32 ==
    /\ CanStep
    /\ \E o \in Offsets(4) :
           ArrayStep("REVERSE_BYTES_IN_ARRAY_32BIT", <<o>>,
                     REVERSE_BYTES_IN_ARRAY_32BIT(data, o), <<>>)

Next == Set16 \/ Set32 \/ Get16 \/ Get32 \/ Reverse16 \/ Reverse32

Spec == InitArray /\ [][Next]_vars

\* ---- callers of the flag / mask / nibble macros: a value of 8, 16 or 32 bits,
\* at most one mutating macro, then at most one predicate on the result
Widths == {8, 16, 32}

TopBit(w) == Vec([i \in 1..w |-> IF i = w THEN 1 ELSE 0])
AllOnes(w) == Vec([i \in 1..w |-> 1])

Values(w) == { FromNat(0, w), FromNat(1, w), FromNat(15, w), FromNat(90, w),
               FromNat(170, w), TopBit(w), AllOnes(w) }
Masks(w) == { FromNat(0, w), FromNat(1, w), FromNat(12, w), FromNat(15, w),
              FromNat(240, w), TopBit(w), AllOnes(w) }
SetValues(w) == { FromNat(0, w), FromNat(3, w), FromNat(99, w), AllOnes(w) }
Nibbles == { FromNat(0, 8), FromNat(10, 8), FromNat(240, 8), FromNat(207, 8) }

\* the flag positions the caller may pass: flag_pos below the width of value
Positions == 0..(Len(value) - 1)

InitBits ==
    /\ \E w \in Widths : value \in Values(w)
    /\ data = <<>> /\ args = <<>>
    /\ ret = <<>> /\ op = NoOp /\ prev = NoOp /\ steps = 0
    /\ pc = "start" /\ status = "ok"
    /\ Unused

\* a mutating macro: r is its outcome, the new content of value (or a trap)
CanMutate == pc = "start" /\ status = "ok"

Mutate(name, arg, r) ==
    /\ CanMutate
    /\ value' = IF r.trap THEN value ELSE r.val
    /\ status' = IF r.trap THEN "trap" ELSE "ok"
    /\ op' = Invoke(name, arg)
    /\ prev' = op /\ steps' = steps + 1 /\ pc' = "mutated"
    /\ UNCHANGED <<data, args, ret, cursor, evals, threads, output>>

\* an expression macro: r is its outcome, the value of the expression (or a trap)
CanObserve == pc \in {"start", "mutated"} /\ status = "ok"

Observe(name, arg, r) ==
    /\ CanObserve
    /\ ret' = IF r.trap THEN <<>> ELSE r.val
    /\ status' = IF r.trap THEN "trap" ELSE "ok"
    /\ op' = Invoke(name, arg)
    /\ prev' = op /\ steps' = steps + 1 /\ pc' = "observed"
    /\ UNCHANGED <<data, args, value, cursor, evals, threads, output>>

GetMask ==
    /\ CanObserve
    /\ \E m \in Masks(Len(value)) : Observe("GET_MASK", <<m>>, Defined(GET_MASK(value, m)))

HasMask ==
    /\ CanObserve
    /\ \E m \in Masks(Len(value)) : Observe("HAS_MASK", <<m>>, Defined(HAS_MASK(value, m)))

OnlyMask ==
    /\ CanObserve
    /\ \E m \in Masks(Len(value)) : Observe("ONLY_MASK", <<m>>, Defined(ONLY_MASK(value, m)))

HasFlag ==
    /\ CanObserve
    /\ \E p \in Positions : \E r \in HAS_FLAG(value, p) : Observe("HAS_FLAG", <<p>>, r)

OnlyFlag ==
    /\ CanObserve
    /\ \E p \in Positions : \E r \in ONLY_FLAG(value, p) : Observe("ONLY_FLAG", <<p>>, r)

SetMask ==
    /\ CanMutate
    /\ \E m \in Masks(Len(value)) : Mutate("SET_MASK", <<m>>, Defined(SET_MASK(value, m)))

ClearMask ==
    /\ CanMutate
    /\ \E m \in Masks(Len(value)) : Mutate("CLEAR_MASK", <<m>>, Defined(CLEAR_MASK(value, m)))

SetFlag ==
    /\ CanMutate
    /\ \E p \in Positions : \E r \in SET_FLAG(value, p) : Mutate("SET_FLAG", <<p>>, r)

ClearFlag ==
    /\ CanMutate
    /\ \E p \in Positions : \E r \in CLEAR_FLAG(value, p) : Mutate("CLEAR_FLAG", <<p>>, r)

SetMaskedValue ==
    /\ CanMutate
    /\ \E m \in Masks(Len(value)), n \in SetValues(Len(value)) :
           Mutate("SET_MASKED_VALUE", <<m, n>>, Defined(SET_MASKED_VALUE(value, m, n)))

GetLowerNibble ==
    /\ CanObserve
    /\ Len(value) = 8
    /\ Observe("GET_LOWER_NIBBLE", <<>>, Defined(GET_LOWER_NIBBLE(value)))

GetUpperNibble ==
    /\ CanObserve
    /\ Len(value) = 8
    /\ Observe("GET_UPPER_NIBBLE", <<>>, Defined(GET_UPPER_NIBBLE(value)))

SetLowerNibble ==
    /\ CanMutate
    /\ Len(value) = 8
    /\ \E n \in Nibbles :
        Mutate("SET_LOWER_NIBBLE", <<n>>, Defined(SET_LOWER_NIBBLE(value, n)))

SetUpperNibble ==
    /\ CanMutate
    /\ Len(value) = 8
    /\ \E n \in Nibbles :
        Mutate("SET_UPPER_NIBBLE", <<n>>, Defined(SET_UPPER_NIBBLE(value, n)))

NextBits ==
    \/ GetMask \/ HasMask \/ OnlyMask \/ HasFlag \/ OnlyFlag
    \/ SetMask \/ ClearMask \/ SetFlag \/ ClearFlag \/ SetMaskedValue
    \/ GetLowerNibble \/ GetUpperNibble \/ SetLowerNibble \/ SetUpperNibble

SpecBits == InitBits /\ [][NextBits]_vars

\* ---- callers of SET_MASKED_VALUE with a mask made of two masks m1 and m2: one
\* writes the mask argument as m1 | m2, one passes a variable m it set to m1 | m2
InitMaskExpr ==
    /\ \E w \in Widths : value \in Values(w)
    /\ data = <<>> /\ args = <<>>
    /\ ret = <<>> /\ op = NoOp /\ prev = NoOp /\ steps = 0
    /\ pc = "mask" /\ status = "ok"
    /\ Unused

MaskExprStep(name, arg, r) ==
    /\ value' = r
    /\ op' = Invoke(name, arg)
    /\ prev' = op /\ steps' = steps + 1 /\ pc' = "done"
    /\ UNCHANGED <<data, args, ret, status, cursor, evals, threads, output>>

SetMaskedValueOrMask ==
    /\ pc = "mask"
    /\ \E m1 \in Masks(Len(value)), m2 \in Masks(Len(value)), n \in SetValues(Len(value)) :
           MaskExprStep("SET_MASKED_VALUE(value, m1 | m2, n)", <<m1, m2, n>>,
                        SET_MASKED_VALUE_orMask(value, m1, m2, n))

SetMaskedValueVariable ==
    /\ pc = "mask"
    /\ \E m1 \in Masks(Len(value)), m2 \in Masks(Len(value)), n \in SetValues(Len(value)) :
           MaskExprStep("SET_MASKED_VALUE(value, m, n)", <<m1, m2, n>>,
                        SET_MASKED_VALUE(value, Conv(BitOr(m1, m2), Len(m1)), n))

NextMaskExpr == SetMaskedValueOrMask \/ SetMaskedValueVariable

SpecMaskExpr == InitMaskExpr /\ [][NextMaskExpr]_vars

\* ---- callers whose argument expressions have side effects.  The caller has
\* a pointer p into its buffer (cursor.p is p - buf) and an offset variable i
\* (cursor.i); it passes p or p++ for data and i or i++ for byte_offset.  A
\* macro is expanded textually: every occurrence of a parameter in its body
\* evaluates the argument expression once more.
DataExprs == {"p", "p++"}
OffsetExprs == {"i", "i++"}

\* the caller's variables and the evaluation counts while a macro body runs
Entry(cur) == [p |-> cur.p, i |-> cur.i, n |-> NoEvals]

\* one evaluation of the argument expression e: its value, and the state after
\* its side effect
EvalData(e, env) ==
    [val |-> env.p,
     env |-> [env EXCEPT !.p = IF e = "p++" THEN @ + 1 ELSE @, !.n.data = @ + 1]]

EvalOffset(e, env) ==
    [val |-> env.i,
     env |-> [env EXCEPT !.i = IF e = "i++" THEN @ + 1 ELSE @, !.n.byte_offset = @ + 1]]

EvalValue(v, env) == [val |-> v, env |-> [env EXCEPT !.n.value = @ + 1]]

\* *(buf + at) = b; a store outside the buffer is undefined and leaves the
\* buffer itself as it is
Poke(d, at, b) == IF at + 1 \in 1..Len(d) THEN [d EXCEPT ![at + 1] = b] ELSE d

\* what a macro invocation leaves: the buffer, the caller's variables, the
\* evaluation counts, the addresses (relative to buf) it accessed, and the value
\* of the macro's expression (<<>>: a statement macro)
LeftValue(d, env, accessed, result) ==
    [data |-> d, cursor |-> [p |-> env.p, i |-> env.i], evals |-> env.n,
     accessed |-> accessed, result |-> result]

Left(d, env, accessed) == LeftValue(d, env, accessed, <<>>)

Expand_SET_16_IN_ARRAY(d, v, dataExpr, offsetExpr, cur) ==
    LET e0  == EvalValue(v, Entry(cur))
        val == Conv(e0.val, 16)
        \* first statement
        p1  == EvalData(dataExpr, e0.env)
        o1  == EvalOffset(offsetExpr, p1.env)
        a1  == p1.val + (o1.val + 0)
        d1  == Poke(d, a1, Store(BitAnd(Shr(val, 8), Lit(255))))
        \* second statement
        p2  == EvalData(dataExpr, o1.env)
        o2  == EvalOffset(offsetExpr, p2.env)
        a2  == p2.val + (o2.val + 1)
        d2  == Poke(d1, a2, Store(BitAnd(Shr(val, 0), Lit(255))))
    IN  Left(d2, o2.env, <<a1, a2>>)

Expand_SET_32_IN_ARRAY(d, v, dataExpr, offsetExpr, cur) ==
    LET e0  == EvalValue(v, Entry(cur))
        val == Conv(e0.val, 32)
        p1  == EvalData(dataExpr, e0.env)
        o1  == EvalOffset(offsetExpr, p1.env)
        ptr == p1.val + o1.val
        d1  == Poke(d,  ptr + 0, Store(BitAnd(Shr(val, 24), Lit(255))))
        d2  == Poke(d1, ptr + 1, Store(BitAnd(Shr(val, 16), Lit(255))))
        d3  == Poke(d2, ptr + 2, Store(BitAnd(Shr(val,  8), Lit(255))))
        d4  == Poke(d3, ptr + 3, Store(BitAnd(Shr(val,  0), Lit(255))))
    IN  Left(d4, o1.env, <<ptr + 0, ptr + 1, ptr + 2, ptr + 3>>)

\* *(buf + at); a load outside the buffer is undefined
Peek(d, at) == IF at + 1 \in 1..Len(d) THEN d[at + 1] ELSE 0

\* one operand of the | of a GET macro: *(((uint8_t*)data) + (size_t)((byte_offset) + k))
Operand(dataExpr, offsetExpr, k, env) ==
    LET p == EvalData(dataExpr, env)
        o == EvalOffset(offsetExpr, p.env)
    IN  [at |-> p.val + (o.val + k), env |-> o.env]

\* the operands evaluated in the given order: the address of each, and the
\* caller's variables after all of them
RECURSIVE EvalOperands(_, _, _, _, _)
EvalOperands(order, dataExpr, offsetExpr, env, ats) ==
    IF order = <<>>
    THEN [ats |-> ats, env |-> env]
    ELSE LET k == Head(order)
             r == Operand(dataExpr, offsetExpr, k, env)
         IN  EvalOperands(Tail(order), dataExpr, offsetExpr, r.env,
                          [ats EXCEPT ![k + 1] = r.at])

\* the operands of | are unsequenced: the orders in which n operands may be evaluated
Orders(n) == { s \in [1..n -> 0..(n - 1)] : \A a, b \in 1..n : a # b => s[a] # s[b] }

\* two unsequenced side effects on one variable are undefined: besides every
\* order of the operands, a build may read the variable once for all operands
\* and write it back once
Merged(n, dataExpr, offsetExpr, cur) ==
    LET one == Operand(dataExpr, offsetExpr, 0, Entry(cur))
    IN  [ats |-> [k \in 1..n |-> cur.p + (cur.i + (k - 1))],
         env |-> [one.env EXCEPT !.n.data = n, !.n.byte_offset = n]]

Evaluations(n, dataExpr, offsetExpr, cur) ==
    { EvalOperands(order, dataExpr, offsetExpr, Entry(cur), [k \in 1..n |-> 0])
          : order \in Orders(n) }
    \cup (IF dataExpr = "p++" \/ offsetExpr = "i++"
          THEN {Merged(n, dataExpr, offsetExpr, cur)} ELSE {})

\* the outcomes of a GET macro: the macro's expression over the loaded bytes
Expand_GET_16_IN_ARRAY(d, dataExpr, offsetExpr, cur) ==
    { LET bytes == [k \in 1..2 |-> Peek(d, r.ats[k])]
          inBuf == \A k \in 1..2 : r.ats[k] < Len(d)
      IN  LeftValue(d, r.env, r.ats,
                    IF inBuf THEN GET_16_IN_ARRAY(bytes, 0) ELSE <<>>)
      : r \in Evaluations(2, dataExpr, offsetExpr, cur) }

Expand_GET_32_IN_ARRAY(d, dataExpr, offsetExpr, cur) ==
    { LET bytes == [k \in 1..4 |-> Peek(d, r.ats[k])]
          inBuf == \A k \in 1..4 : r.ats[k] < Len(d)
      IN  LeftValue(d, r.env, r.ats,
                    IF inBuf THEN GET_32_IN_ARRAY(bytes, 0) ELSE <<>>)
      : r \in Evaluations(4, dataExpr, offsetExpr, cur) }

InitArgs ==
    /\ data = TestBuffer
    /\ cursor \in [p : 0..1, i : 0..(BufLen - 2)]
    /\ evals = NoEvals /\ threads = NoThreads /\ output = NoOutput
    /\ value = <<>> /\ args = <<>>
    /\ ret = <<>> /\ op = NoOp /\ prev = NoOp /\ steps = 0
    /\ pc = "args" /\ status = "ok"

\* the caller invokes a macro only where the word at p + i lies in its buffer
CanInvoke(size) ==
    /\ pc = "args" /\ status = "ok" /\ steps < MaxOps
    /\ cursor.p + cursor.i + size <= Len(data)

ArgsStep(name, arg, left) ==
    /\ data' = left.data
    /\ cursor' = left.cursor
    /\ evals' = left.evals
    /\ ret' = left.result
    /\ status' = IF \A k \in 1..Len(left.accessed) : left.accessed[k] < Len(data)
                 THEN "ok" ELSE "out of bounds"
    /\ op' = Invoke(name, arg)
    /\ prev' = op /\ steps' = steps + 1
    /\ UNCHANGED <<value, args, pc, threads, output>>

Set16Args ==
    /\ CanInvoke(2)
    /\ \E v \in Words16, de \in DataExprs, oe \in OffsetExprs :
           ArgsStep("SET_16_IN_ARRAY", <<v, de, oe>>,
                    Expand_SET_16_IN_ARRAY(data, v, de, oe, cursor))

Set32Args ==
    /\ CanInvoke(4)
    /\ \E v \in Words32, de \in DataExprs, oe \in OffsetExprs :
           ArgsStep("SET_32_IN_ARRAY", <<v, de, oe>>,
                    Expand_SET_32_IN_ARRAY(data, v, de, oe, cursor))

Get16Args ==
    /\ CanInvoke(2)
    /\ \E de \in DataExprs, oe \in OffsetExprs :
           \E left \in Expand_GET_16_IN_ARRAY(data, de, oe, cursor) :
               ArgsStep("GET_16_IN_ARRAY", <<de, oe>>, left)

Get32Args ==
    /\ CanInvoke(4)
    /\ \E de \in DataExprs, oe \in OffsetExprs :
           \E left \in Expand_GET_32_IN_ARRAY(data, de, oe, cursor) :
               ArgsStep("GET_32_IN_ARRAY", <<de, oe>>, left)

NextArgs == Set16Args \/ Set32Args \/ Get16Args \/ Get32Args

SpecArgs == InitArgs /\ [][NextArgs]_vars

\* ---- concurrent callers of the array codec: two threads, each running one
\* macro invocation on the same buffer.  A step of a thread is one access to a
\* byte of the buffer (the macros access the buffer through uint8_t lvalues only);
\* what a thread holds in between (__val, __data, __temp, loaded operands) is
\* in its own automatic variables and registers.
ThreadBuffer == [i \in 1..ThreadBufLen |-> 17 * i]

Threads == {1, 2}

RegNames == {"temp", "x", "b0", "b1", "b2", "b3"}

\* the thread whose storage holds the automatic variables of thread t
RegOwner_sharedTemp(t) == 1

RegOwner(t) == t

Instr(kind, at, reg, shift) == [kind |-> kind, at |-> at, reg |-> reg, shift |-> shift]

\* the accesses to the buffer a macro makes, relative to data + byte_offset
Accesses(name) ==
    CASE name = "SET_16_IN_ARRAY" ->
           << Instr("storeval", 0, "", 8), Instr("storeval", 1, "", 0) >>
      [] name = "SET_32_IN_ARRAY" ->
           << Instr("storeval", 0, "", 24), Instr("storeval", 1, "", 16),
              Instr("storeval", 2, "", 8),  Instr("storeval", 3, "", 0) >>
      [] name = "GET_16_IN_ARRAY" ->
           << Instr("load", 0, "b0", 0), Instr("load", 1, "b1", 0) >>
      [] name = "GET_32_IN_ARRAY" ->
           << Instr("load", 0, "b0", 0), Instr("load", 1, "b1", 0),
              Instr("load", 2, "b2", 0), Instr("load", 3, "b3", 0) >>
      [] name = "REVERSE_BYTES_IN_ARRAY_16BIT" ->
           << Instr("load", 0, "temp", 0),
              Instr("load", 1, "x", 0), Instr("store", 0, "x", 0),
              Instr("store", 1, "temp", 0) >>
      [] name = "REVERSE_BYTES_IN_ARRAY_32BIT" ->
           << Instr("load", 0, "temp", 0),
              Instr("load", 3, "x", 0), Instr("store", 0, "x", 0),
              Instr("store", 3, "temp", 0),
              Instr("load", 1, "temp", 0),
              Instr("load", 2, "x", 0), Instr("store", 1, "x", 0),
              Instr("store", 2, "temp", 0) >>

\* the statements of the do { } while(0) macros run in order; the operands of
\* the | of the GET macros are unsequenced
Sequenced(name) == name \notin {"GET_16_IN_ARRAY", "GET_32_IN_ARRAY"}

WordSize(name) ==
    IF name \in {"SET_16_IN_ARRAY", "GET_16_IN_ARRAY", "REVERSE_BYTES_IN_ARRAY_16BIT"}
    THEN 2 ELSE 4

\* the accesses thread th may make next
Ready(th) ==
    LET todo == (1..Len(Accesses(th.name))) \ th.done
    IN  IF Sequenced(th.name)
        THEN { i \in todo : \A j \in todo : i <= j }
        ELSE todo

Finished(th) == th.done = 1..Len(Accesses(th.name))

\* the value of a GET macro once all its operands are loaded
Assembled(name, reg) ==
    CASE name = "GET_16_IN_ARRAY" -> GET_16_IN_ARRAY(<<reg.b0, reg.b1>>, 0)
      [] name = "GET_32_IN_ARRAY" -> GET_32_IN_ARRAY(<<reg.b0, reg.b1, reg.b2, reg.b3>>, 0)
      [] OTHER -> <<>>

ThreadWords16 == { WordOf(<<18, 52>>), WordOf(<<187, 221, 204, 170>>) }
ThreadWords32 == { WordOf(<<18, 52, 86, 120>>),
                   WordOf(<<0, 0, 0, 255, 187, 221, 204, 170>>) }

\* the invocations a thread may make: the word lies within the buffer
Invocations ==
    LET Call(name, vals) ==
            { [name |-> name, val |-> v, off |-> o] :
                  v \in vals, o \in 0..(ThreadBufLen - WordSize(name)) }
    IN  Call("SET_16_IN_ARRAY", ThreadWords16) \cup Call("SET_32_IN_ARRAY", ThreadWords32)
        \cup Call("GET_16_IN_ARRAY", {<<>>}) \cup Call("GET_32_IN_ARRAY", {<<>>})
        \cup Call("REVERSE_BYTES_IN_ARRAY_16BIT", {<<>>})
        \cup Call("REVERSE_BYTES_IN_ARRAY_32BIT", {<<>>})

\* the two invocations touch no common byte
Disjoint(a, b) ==
    \/ a.off + WordSize(a.name) <= b.off
    \/ b.off + WordSize(b.name) <= a.off

\* thread t makes its access i: the other thread, if it is in the middle of its
\* invocation, has been preempted
Advance(t, i) ==
    LET u == 3 - t
        mid == threads[u].done # {} /\ ~Finished(threads[u])
    IN  [threads EXCEPT ![t].done = threads[t].done \cup {i},
                        ![u].preempted = threads[u].preempted \/ mid]

StartThread(call) ==
    [name |-> call.name, val |-> call.val, off |-> call.off,
     done |-> {}, reg |-> [r \in RegNames |-> 0], result |-> <<>>,
     preempted |-> FALSE]

InitThreads ==
    /\ \E a \in Invocations, b \in Invocations :
           /\ Disjoint(a, b)
           /\ threads = <<StartThread(a), StartThread(b)>>
    /\ data = ThreadBuffer
    /\ value = <<>> /\ args = <<>>
    /\ ret = <<>> /\ op = NoOp /\ prev = NoOp /\ steps = 0
    /\ pc = "threads" /\ status = "ok"
    /\ cursor = NoCursor /\ evals = NoEvals /\ output = NoOutput

\* thread t loads one byte of the buffer into one of its registers
LoadByte(t) ==
    /\ pc = "threads"
    /\ \E i \in Ready(threads[t]) :
           LET th  == threads[t]
               ins == Accesses(th.name)[i]
               t1  == Advance(t, i)
               t2  == [t1 EXCEPT ![RegOwner(t)].reg[ins.reg] = data[th.off + ins.at + 1]]
               t3  == IF Finished(t2[t])
                      THEN [t2 EXCEPT ![t].result = Assembled(th.name, t2[RegOwner(t)].reg)]
                      ELSE t2
           IN  /\ ins.kind = "load"
               /\ threads' = t3
    /\ UNCHANGED <<data, value, args, ret, op, prev, steps, pc, status, cursor, evals, output>>

\* thread t stores one byte: a register, or a byte of its __val
StoreStep(t) ==
    \E i \in Ready(threads[t]) :
        LET th  == threads[t]
            ins == Accesses(th.name)[i]
            val == Conv(th.val, 8 * WordSize(th.name))
            b   == IF ins.kind = "storeval"
                   THEN Store(BitAnd(Shr(val, ins.shift), Lit(255)))
                   ELSE threads[RegOwner(t)].reg[ins.reg]
        IN  /\ ins.kind \in {"store", "storeval"}
            /\ data' = [data EXCEPT ![th.off + ins.at + 1] = b]
            /\ threads' = Advance(t, i)

StoreByte(t) ==
    /\ pc = "threads"
    /\ StoreStep(t)
    /\ UNCHANGED <<value, args, ret, op, prev, steps, pc, status, cursor, evals, output>>

NextThreads == \E t \in Threads : LoadByte(t) \/ StoreByte(t)

SpecThreads == InitThreads /\ [][NextThreads]_vars

\* ---- two threads that each run SET_32_IN_ARRAY with a value of its own at one
\* common offset, and the thread that joins them and reads the word back.
\* args tells whether the callers serialise the two invocations with a lock.
RaceWords32 == { WordOf(<<0, 0, 0, 0>>), WordOf(<<18, 52, 86, 120>>),
                 WordOf(<<170, 187, 204, 221>>) }

InitRace ==
    /\ \E v1 \in RaceWords32, v2 \in RaceWords32, o \in 0..(ThreadBufLen - 4) :
           /\ v1 # v2
           /\ threads = << StartThread([name |-> "SET_32_IN_ARRAY", val |-> v1, off |-> o]),
                           StartThread([name |-> "SET_32_IN_ARRAY", val |-> v2, off |-> o]) >>
    /\ args \in [serialised : BOOLEAN]
    /\ data = ThreadBuffer
    /\ value = <<>>
    /\ ret = <<>> /\ op = NoOp /\ prev = NoOp /\ steps = 0
    /\ pc = "race" /\ status = "ok"
    /\ cursor = NoCursor /\ evals = NoEvals /\ output = NoOutput

\* the lock of the serialising callers: thread t may run while the other thread
\* is not in the middle of its invocation
MayRun_noLock(t) == TRUE

MayRun(t) == threads[3 - t].done = {} \/ Finished(threads[3 - t])

\* op is the invocation begun last
Begin(t) ==
    IF threads[t].done = {}
    THEN /\ op' = Invoke(threads[t].name, <<threads[t].val, threads[t].off>>)
         /\ prev' = op
    ELSE UNCHANGED <<op, prev>>

UnsynchronisedStore(t) ==
    /\ pc = "race" /\ ~args.serialised
    /\ StoreStep(t)
    /\ Begin(t)
    /\ UNCHANGED <<value, args, ret, steps, pc, status, cursor, evals, output>>

SerialisedStore(t) ==
    /\ pc = "race" /\ args.serialised
    /\ MayRun(t)
    /\ StoreStep(t)
    /\ Begin(t)
    /\ UNCHANGED <<value, args, ret, steps, pc, status, cursor, evals, output>>

\* both threads are joined; GET_32_IN_ARRAY at the common offset
ReadBack ==
    /\ pc = "race"
    /\ \A t \in Threads : Finished(threads[t])
    /\ ret' = GET_32_IN_ARRAY(data, threads[1].off)
    /\ op' = Invoke("GET_32_IN_ARRAY", <<threads[1].off>>)
    /\ prev' = op /\ steps' = steps + 1 /\ pc' = "joined"
    /\ UNCHANGED <<data, value, args, status, cursor, evals, threads, output>>

NextRace ==
    \/ \E t \in Threads : UnsynchronisedStore(t) \/ SerialisedStore(t)
    \/ ReadBack

SpecRace == InitRace /\ [][NextRace]_vars

\* ---- callers of the log macros (stdlib platform): a file that registers a
\* module with LIBOS_LOG_MODULE and then runs log statements.  args holds the
\* build's LIBOS_LOG_LEVEL_MIN and the file's __TAG.
LIBOS_LOG_LEVEL_ERR == 0
LIBOS_LOG_LEVEL_WRN == 1
LIBOS_LOG_LEVEL_INF == 2
LIBOS_LOG_LEVEL_DBG == 3

LogLevels == {LIBOS_LOG_LEVEL_ERR, LIBOS_LOG_LEVEL_WRN, LIBOS_LOG_LEVEL_INF,
              LIBOS_LOG_LEVEL_DBG}

\* static log_module_t __TAG = { .level = log_level, .name = #log_name }
LIBOS_LOG_MODULE_MIN_LEVEL(log_name, log_level) == [level |-> log_level, name |-> log_name]

LIBOS_LOG_MODULE(log_name, min) == LIBOS_LOG_MODULE_MIN_LEVEL(log_name, min)

\* #if LIBOS_LOG_LEVEL_MIN > LIBOS_LOG_LEVEL_x: the statement expands to
\* LIBOS_LOG_PRINT, otherwise to nothing
Kept(level, min) == min > level

err_to_name(level) ==
    CASE level = LIBOS_LOG_LEVEL_ERR -> "ERR"
      [] level = LIBOS_LOG_LEVEL_WRN -> "WRN"
      [] level = LIBOS_LOG_LEVEL_INF -> "INF"
      [] level = LIBOS_LOG_LEVEL_DBG -> "DBG"
      [] OTHER -> "UNK"

NULL == [level |-> -1, name |-> "NULL"]

\* the lines on stdout after the call
libos_log_print(level, module, format, out) ==
    IF module = NULL
    THEN out
    ELSE IF level > module.level
         THEN Append(out, [module |-> module.name, name |-> err_to_name(level),
                           format |-> format])
         ELSE out

\* LIBOS_LOG_PRINT(level, ...) hands the file's __TAG on
LIBOS_LOG_PRINT(level, format, out) == libos_log_print(level, args.tag, format, out)

Formats == {"started", "failed: %d"}

InitLog ==
    /\ \E min \in LogLevels :
           args = [min |-> min, tag |-> LIBOS_LOG_MODULE("app", min)]
    /\ output = NoOutput
    /\ data = <<>> /\ value = <<>>
    /\ ret = <<>> /\ op = NoOp /\ prev = NoOp /\ steps = 0
    /\ pc = "log" /\ status = "ok"
    /\ cursor = NoCursor /\ evals = NoEvals /\ threads = NoThreads

CanLog == pc = "log" /\ steps < MaxLogs

\* one log statement of the given level, as the preprocessor left it
LogStatement(name, level) ==
    /\ CanLog
    /\ \E format \in Formats :
           /\ output' = IF Kept(level, args.min)
                        THEN LIBOS_LOG_PRINT(level, format, output)
                        ELSE output
           /\ op' = Invoke(name, <<level, format>>)
    /\ prev' = op /\ steps' = steps + 1
    /\ UNCHANGED <<data, value, args, ret, pc, status, cursor, evals, threads>>

LogErr ==
    /\ CanLog
    /\ LogStatement("LIBOS_LOG_ERR", LIBOS_LOG_LEVEL_ERR)

LogWrn ==
    /\ CanLog
    /\ LogStatement("LIBOS_LOG_WRN", LIBOS_LOG_LEVEL_WRN)

LogInf ==
    /\ CanLog
    /\ LogStatement("LIBOS_LOG_INF", LIBOS_LOG_LEVEL_INF)

LogDbg ==
    /\ CanLog
    /\ LogStatement("LIBOS_LOG_DBG", LIBOS_LOG_LEVEL_DBG)

NextLog == LogErr \/ LogWrn \/ LogInf \/ LogDbg

SpecLog == InitLog /\ [][NextLog]_vars

\* ---- callers of the time comparisons (stdlib platform).  libos_time_t is an
\* int_least64_t count of microseconds; a timestamp is modelled by that number.
libos_time_is_later(a, b) == a > b

libos_time_is_earlier(a, b) == a < b

libos_time_is_same(a, b) == a = b

Timestamps == {-1000000, -1, 0, 1, 2, 999, 1000, 1001, 999999, 1000000, 2000000}

InitTime ==
    /\ args \in Timestamps \X Timestamps
    /\ data = <<>> /\ value = <<>>
    /\ ret = <<>> /\ op = NoOp /\ prev = NoOp /\ steps = 0
    /\ pc = "call" /\ status = "ok"
    /\ Unused

TimeCall(name, result) ==
    /\ ret' = result
    /\ op' = Invoke(name, args)
    /\ prev' = op /\ steps' = steps + 1 /\ pc' = "done"
    /\ UNCHANGED <<data, value, args, status, cursor, evals, threads, output>>

IsLater ==
    /\ pc = "call"
    /\ TimeCall("libos_time_is_later", libos_time_is_later(args[1], args[2]))

IsEarlier ==
    /\ pc = "call"
    /\ TimeCall("libos_time_is_earlier", libos_time_is_earlier(args[1], args[2]))

IsSame ==
    /\ pc = "call"
    /\ TimeCall("libos_time_is_same", libos_time_is_same(args[1], args[2]))

NextTime == IsLater \/ IsEarlier \/ IsSame

SpecTime == InitTime /\ [][NextTime]_vars

\* ---- a function that checks an argument with LIBOS_ERR_RET_ARG_IN_RANGE and
\* then returns LIBOS_ERR_OK.  args holds value, range_min and range_max (ints).
LIBOS_ERR_OK == "0"
LIBOS_ERR_INVALID_ARG == "EINVAL"

\* do { if ((condition)) { return (ret); }} while(0): whether the enclosing
\* function returns, and what
LIBOS_ERR_RET_ON_TRUE(condition, r) ==
    IF condition THEN [returns |-> TRUE, val |-> r] ELSE [returns |-> FALSE, val |-> <<>>]

LIBOS_ERR_RET_ARG_IN_RANGE_exclusiveMax(v, range_min, range_max) ==
    LIBOS_ERR_RET_ON_TRUE(v < range_min \/ v >= range_max, LIBOS_ERR_INVALID_ARG)

LIBOS_ERR_RET_ARG_IN_RANGE(v, range_min, range_max) ==
    LIBOS_ERR_RET_ON_TRUE(v < range_min \/ v > range_max, LIBOS_ERR_INVALID_ARG)

ArgValues == -3..3

InitError ==
    /\ args \in ArgValues \X ArgValues \X ArgValues
    /\ data = <<>> /\ value = <<>>
    /\ ret = <<>> /\ op = NoOp /\ prev = NoOp /\ steps = 0
    /\ pc = "check" /\ status = "ok"
    /\ Unused

\* the macro statement at the start of the function
CheckArgInRange ==
    /\ pc = "check"
    /\ LET r == LIBOS_ERR_RET_ARG_IN_RANGE(args[1], args[2], args[3])
       IN  /\ pc' = IF r.returns THEN "returned" ELSE "after check"
           /\ ret' = r.val
    /\ op' = Invoke("LIBOS_ERR_RET_ARG_IN_RANGE", args)
    /\ prev' = op /\ steps' = steps + 1
    /\ UNCHANGED <<data, value, args, status, cursor, evals, threads, output>>

\* the statement after the macro: return LIBOS_ERR_OK
ReturnOk ==
    /\ pc = "after check"
    /\ pc' = "returned"
    /\ ret' = LIBOS_ERR_OK
    /\ op' = Invoke("return", <<>>)
    /\ prev' = op /\ steps' = steps + 1
    /\ UNCHANGED <<data, value, args, status, cursor, evals, threads, output>>

NextError == CheckArgInRange \/ ReturnOk

SpecError == InitError /\ [][NextError]_vars

----------------------------------------------------------------------------
(* Properties *)

\* byte k of a value, k = 0 the least significant: (x >> 8k) & 0xFF
ByteAt(x, k) == ToNat(SubSeq(Conv(x, 8 * k + 8), 8 * k + 1, 8 * k + 8))

\* the value fits in w bits
FitsIn(x, w) == \A i \in 1..Len(x) : i > w => x[i] = 0

IsByte(n) == n \in 0..255

\* C1: has_mask(value, mask) is true iff mask is not zero and every bit of mask
\* is set in value; a zero mask gives false for every value, also for value 0.
C1_HasMaskIffNonZeroSubset ==
    op.name = "HAS_MASK" =>
        LET mask == op.arg[1]
        IN  /\ ret \in {Lit(0), Lit(1)}
            /\ ret = Lit(1) <=>
                   /\ \E i \in 1..Len(mask) : mask[i] = 1
                   /\ \A i \in 1..Len(mask) : mask[i] = 1 => value[i] = 1

C1_Witness ==
    /\ op.name = "HAS_MASK"
    /\ op.arg[1] = FromNat(0, Len(value))
    /\ value = FromNat(0, Len(value))
    /\ ret = Lit(0)

\* C2: get_u16_be right after set_u16_be of a 16-bit v at the same offset
\* returns v, and get_u32_be right after set_u32_be of a 32-bit v returns v,
\* whatever the buffer held before.
C2_RoundTrip ==
    /\ ( /\ op.name = "GET_16_IN_ARRAY" /\ prev.name = "SET_16_IN_ARRAY"
         /\ op.arg[1] = prev.arg[2] /\ FitsIn(prev.arg[1], 16) )
       => Len(ret) = 16 /\ Eq(ret, prev.arg[1])
    /\ ( /\ op.name = "GET_32_IN_ARRAY" /\ prev.name = "SET_32_IN_ARRAY"
         /\ op.arg[1] = prev.arg[2] /\ FitsIn(prev.arg[1], 32) )
       => Len(ret) = 32 /\ Eq(ret, prev.arg[1])

C2_Witness ==
    /\ op.name = "GET_32_IN_ARRAY" /\ prev.name = "SET_32_IN_ARRAY"
    /\ op.arg[1] = prev.arg[2]
    /\ prev.oldData = FullBuffer
    /\ ret = WordOf(<<18, 52, 86, 120>>)

\* C3: set_u16_be and set_u32_be leave the word in big-endian layout: the byte
\* at offset off + i is byte (size - 1 - i) of the value, most significant first.
C3_BigEndianLayout ==
    /\ op.name = "SET_16_IN_ARRAY" =>
           \A i \in 0..1 : data[op.arg[2] + i + 1] = ByteAt(op.arg[1], 1 - i)
    /\ op.name = "SET_32_IN_ARRAY" =>
           \A i \in 0..3 : data[op.arg[2] + i + 1] = ByteAt(op.arg[1], 3 - i)

C3_Witness ==
    /\ op.name = "SET_16_IN_ARRAY"
    /\ op.arg = <<WordOf(<<18, 52>>), 0>>
    /\ data[1] = 18 /\ data[2] = 52

C5_TestsLowFirst ==
    /\ ( /\ op.name = "COMBINE_BYTES_16"
         /\ \A k \in 1..2 : IsByte(op.arg[k]) )
       => ToNat(ret) = op.arg[2] * 256 + op.arg[1]
    /\ ( /\ op.name = "COMBINE_BYTES_32"
         /\ \A k \in 1..4 : IsByte(op.arg[k]) )
       => ret = WordOf(<<op.arg[4], op.arg[3], op.arg[2], op.arg[1]>>)

NatBit(n, k) == IF k < 0 \/ k > 30 THEN 0 ELSE (n \div (2 ^ k)) % 2

C8_HasFlagAfterSetAndClear ==
    /\ (op.name = "HAS_FLAG" /\ prev.name = "SET_FLAG" /\ op.arg = prev.arg)
       => ret = Lit(1)
    /\ (op.name = "HAS_FLAG" /\ prev.name = "CLEAR_FLAG" /\ op.arg = prev.arg)
       => ret = Lit(0)

\* C9: reversing the same word twice restores the buffer: reverse_u16 twice at
\* one offset, and reverse_u32 twice at one offset, leave every byte as it was.
C9_ReverseTwiceRestores ==
    /\ ( /\ op.name = "REVERSE_BYTES_IN_ARRAY_16BIT"
         /\ prev.name = "REVERSE_BYTES_IN_ARRAY_16BIT" /\ op.arg = prev.arg )
       => data = prev.oldData
    /\ ( /\ op.name = "REVERSE_BYTES_IN_ARRAY_32BIT"
         /\ prev.name = "REVERSE_BYTES_IN_ARRAY_32BIT" /\ op.arg = prev.arg )
       => data = prev.oldData

C9_Witness ==
    /\ op.name = "REVERSE_BYTES_IN_ARRAY_32BIT"
    /\ prev.name = "REVERSE_BYTES_IN_ARRAY_32BIT" /\ op.arg = prev.arg
    /\ data = TestBuffer
    /\ op.oldData # data

\* C10: set_masked_value leaves, in every bit under the mask, the bit of the new
\* value, and in every other bit the old bit of value; bits of the new value
\* outside the mask have no effect.
C10_SetMaskedValueBits ==
    op.name = "SET_MASKED_VALUE" =>
        /\ Len(value) = Len(op.oldValue)
        /\ \A i \in 1..Len(value) :
               value[i] = IF op.arg[1][i] = 1 THEN op.arg[2][i] ELSE op.oldValue[i]

C10_Witness ==
    /\ op.name = "SET_MASKED_VALUE"
    /\ op.oldValue = FromNat(15, 8)
    /\ op.arg = <<FromNat(15, 8), FromNat(99, 8)>>
    /\ value = FromNat(3, 8)

\* the value of w bits whose only set bit is bit pos
OneBit(w, pos) == Vec([i \in 1..w |-> IF i = pos + 1 THEN 1 ELSE 0])

\* how often the byte b occurs in the buffer d
Occurrences(d, b) == Cardinality({ i \in 1..Len(d) : d[i] = b })

\* C11: only_mask(value, mask) is true iff value = mask; only_mask(0, 0) is true,
\* a strict subset and a strict superset of mask give false.
C11_OnlyMaskIffEqual ==
    op.name = "ONLY_MASK" => ret = CBool(value = op.arg[1])

C11_Witness ==
    /\ op.name = "ONLY_MASK"
    /\ value = FromNat(0, Len(value))
    /\ op.arg[1] = value
    /\ ret = Lit(1)

\* C12: only_flag(value, pos) is true iff value = 1 << pos, for every pos below
\* the width of value; otherwise it is false.
C12_OnlyFlagIffOnlyThatBit ==
    op.name = "ONLY_FLAG" => ret = CBool(value = OneBit(Len(value), op.arg[1]))

\* C13: has_flag(value, pos) is true iff bit pos of value is set, and equals
\* has_mask(value, 1 << pos), for every pos below the width of value.
C13_HasFlagIsHasMaskOfBit ==
    op.name = "HAS_FLAG" =>
        /\ ret = CBool(value[op.arg[1] + 1] = 1)
        /\ ret = HAS_MASK(value, OneBit(Len(value), op.arg[1]))

\* C14: set_mask leaves value = old | mask and clear_mask leaves value = old & ~mask
\* in the width of value: bits under the mask are set (cleared), the others kept.
C14_SetAndClearMaskBits ==
    /\ op.name = "SET_MASK" =>
           /\ Len(value) = Len(op.oldValue)
           /\ \A i \in 1..Len(value) :
                  value[i] = IF op.arg[1][i] = 1 THEN 1 ELSE op.oldValue[i]
    /\ op.name = "CLEAR_MASK" =>
           /\ Len(value) = Len(op.oldValue)
           /\ \A i \in 1..Len(value) :
                  value[i] = IF op.arg[1][i] = 1 THEN 0 ELSE op.oldValue[i]

C14_Witness ==
    /\ op.name = "CLEAR_MASK"
    /\ op.oldValue = FromNat(170, 8)
    /\ op.arg[1] = FromNat(240, 8)
    /\ value = FromNat(10, 8)

\* C15: on an 8-bit value, set_lower_nibble leaves (old & 0xF0) | (nibble & 0x0F)
\* and set_upper_nibble leaves (old & 0x0F) | ((nibble & 0x0F) << 4), for every
\* nibble argument in 0..255: the other nibble is kept, the upper four bits of
\* the argument are ignored.
C15_SetNibbles ==
    /\ op.name = "SET_LOWER_NIBBLE" =>
           /\ Len(value) = 8
           /\ ToNat(value) = (ToNat(op.oldValue) \div 16) * 16 + (ToNat(op.arg[1]) % 16)
    /\ op.name = "SET_UPPER_NIBBLE" =>
           /\ Len(value) = 8
           /\ ToNat(value) = (ToNat(op.arg[1]) % 16) * 16 + (ToNat(op.oldValue) % 16)

C15_Witness ==
    /\ op.name = "SET_LOWER_NIBBLE"
    /\ op.oldValue = FromNat(90, 8)
    /\ op.arg[1] = FromNat(240, 8)
    /\ value = FromNat(80, 8)

\* C16: on an 8-bit value, get_lower_nibble is value & 0xF and get_upper_nibble
\* is (value >> 4) & 0xF; both lie in 0..15 and (upper << 4) | lower is value.
C16_GetNibbles ==
    /\ op.name = "GET_LOWER_NIBBLE" =>
           /\ ToNat(ret) = ToNat(value) % 16
           /\ Eq(value, BitOr(Shl(GET_UPPER_NIBBLE(value), 4), ret))
    /\ op.name = "GET_UPPER_NIBBLE" =>
           /\ ToNat(ret) = (ToNat(value) \div 16) % 16
           /\ Eq(value, BitOr(Shl(ret, 4), GET_LOWER_NIBBLE(value)))

C16_Witness ==
    /\ op.name = "GET_UPPER_NIBBLE"
    /\ value = FromNat(90, 8)
    /\ ToNat(ret) = 5

\* C17: reverse_u16 exchanges the bytes at off and off + 1; reverse_u32 leaves at
\* off + i the old byte of off + 3 - i; no byte value is lost or duplicated.
C17_ReverseExchangesBytes ==
    /\ op.name = "REVERSE_BYTES_IN_ARRAY_16BIT" =>
           /\ data[op.arg[1] + 1] = op.oldData[op.arg[1] + 2]
           /\ data[op.arg[1] + 2] = op.oldData[op.arg[1] + 1]
    /\ op.name = "REVERSE_BYTES_IN_ARRAY_32BIT" =>
           \A i \in 0..3 : data[op.arg[1] + i + 1] = op.oldData[op.arg[1] + 3 - i + 1]
    /\ op.name \in {"REVERSE_BYTES_IN_ARRAY_16BIT", "REVERSE_BYTES_IN_ARRAY_32BIT"} =>
           \A b \in 0..255 : Occurrences(data, b) = Occurrences(op.oldData, b)

C17_Witness ==
    /\ op.name = "REVERSE_BYTES_IN_ARRAY_16BIT"
    /\ op.arg = <<3>>
    /\ op.oldData = TestBuffer
    /\ data[4] = 85 /\ data[5] = 68

\* C18: the array mutators change no byte outside the word they are given
\* ([off, off + 2) resp. [off, off + 4)), also when the word ends the buffer,
\* and never change the length of the buffer.
C18_ArrayMutatorsFrame ==
    LET size == IF op.name \in {"SET_16_IN_ARRAY", "REVERSE_BYTES_IN_ARRAY_16BIT"}
                THEN 2 ELSE 4
        off  == op.arg[Len(op.arg)]
    IN  op.name \in {"SET_16_IN_ARRAY", "REVERSE_BYTES_IN_ARRAY_16BIT",
                     "SET_32_IN_ARRAY", "REVERSE_BYTES_IN_ARRAY_32BIT"} =>
            /\ Len(data) = Len(op.oldData)
            /\ \A i \in 1..Len(data) :
                   (i <= off \/ i > off + size) => data[i] = op.oldData[i]

C18_Witness ==
    /\ op.name = "SET_32_IN_ARRAY"
    /\ op.arg[2] + 4 = Len(data)
    /\ op.arg[2] > 0
    /\ \A i \in 0..3 : data[op.arg[2] + i + 1] # op.oldData[op.arg[2] + i + 1]

\* the buffer and the value one thread's invocation leaves when run alone on d
RunAlone(th, d) ==
    CASE th.name = "SET_16_IN_ARRAY" ->
           [data |-> SET_16_IN_ARRAY(d, th.val, th.off), result |-> <<>>]
      [] th.name = "SET_32_IN_ARRAY" ->
           [data |-> SET_32_IN_ARRAY(d, th.val, th.off), result |-> <<>>]
      [] th.name = "GET_16_IN_ARRAY" ->
           [data |-> d, result |-> GET_16_IN_ARRAY(d, th.off)]
      [] th.name = "GET_32_IN_ARRAY" ->
           [data |-> d, result |-> GET_32_IN_ARRAY(d, th.off)]
      [] th.name = "REVERSE_BYTES_IN_ARRAY_16BIT" ->
           [data |-> REVERSE_BYTES_IN_ARRAY_16BIT(d, th.off), result |-> <<>>]
      [] th.name = "REVERSE_BYTES_IN_ARRAY_32BIT" ->
           [data |-> REVERSE_BYTES_IN_ARRAY_32BIT(d, th.off), result |-> <<>>]

\* C19: two threads that each run one array-codec operation on disjoint byte
\* ranges of one buffer end, after every interleaving of their byte loads and
\* stores, with the buffer and the returned values of running the two
\* operations one after the other (in either order).
C19_DisjointThreadsAsSequential ==
    (pc = "threads" /\ \A t \in Threads : Finished(threads[t])) =>
        \A first \in Threads :
            LET second == 3 - first
                r1 == RunAlone(threads[first], ThreadBuffer)
                r2 == RunAlone(threads[second], r1.data)
            IN  /\ data = r2.data
                /\ threads[first].result = r1.result
                /\ threads[second].result = r2.result

\* both threads have finished, each having been preempted by the other in the
\* middle of its invocation
C19_Witness ==
    /\ pc = "threads"
    /\ \A t \in Threads : Finished(threads[t]) /\ threads[t].preempted
    /\ threads[1].name = "REVERSE_BYTES_IN_ARRAY_32BIT" /\ threads[1].off = 0
    /\ threads[2].name = "SET_32_IN_ARRAY" /\ threads[2].off = 4
    /\ data # ThreadBuffer
    /\ data[1] = 68 /\ data[5] = 18

\* by how much one evaluation of the argument expression e moves its variable
Increment(e) == IF e \in {"p++", "i++"} THEN 1 ELSE 0

\* C20: SET_16_IN_ARRAY and SET_32_IN_ARRAY evaluate data, value and byte_offset
\* exactly once: a side effect of an argument takes effect once, and every byte
\* of the word is stored relative to the one evaluated pointer and offset.
C20_SetEvaluatesArgumentsOnce ==
    op.name \in {"SET_16_IN_ARRAY", "SET_32_IN_ARRAY"} =>
        LET old == op.oldCursor
            at  == old.p + old.i
        IN  /\ evals = [data |-> 1, value |-> 1, byte_offset |-> 1]
            /\ cursor = [p |-> old.p + Increment(op.arg[2]),
                         i |-> old.i + Increment(op.arg[3])]
            /\ data = IF op.name = "SET_16_IN_ARRAY"
                      THEN SET_16_IN_ARRAY(op.oldData, op.arg[1], at)
                      ELSE SET_32_IN_ARRAY(op.oldData, op.arg[1], at)

\* C21: GET_16_IN_ARRAY and GET_32_IN_ARRAY evaluate data and byte_offset exactly
\* once: a side effect of an argument takes effect once, and every byte of the
\* returned word is read relative to the one evaluated pointer and offset.
C21_GetEvaluatesArgumentsOnce ==
    op.name \in {"GET_16_IN_ARRAY", "GET_32_IN_ARRAY"} =>
        LET old == op.oldCursor
            at  == old.p + old.i
        IN  /\ evals = [data |-> 1, value |-> 0, byte_offset |-> 1]
            /\ cursor = [p |-> old.p + Increment(op.arg[1]),
                         i |-> old.i + Increment(op.arg[2])]
            /\ ret = IF op.name = "GET_16_IN_ARRAY"
                     THEN GET_16_IN_ARRAY(op.oldData, at)
                     ELSE GET_32_IN_ARRAY(op.oldData, at)

C23_LittleEndianByReversal ==
    /\ ( /\ op.name = "REVERSE_BYTES_IN_ARRAY_16BIT" /\ prev.name = "SET_16_IN_ARRAY"
         /\ op.arg[1] = prev.arg[2] )
       => \A i \in 0..1 : data[op.arg[1] + i + 1] = ByteAt(prev.arg[1], i)
    /\ ( /\ op.name = "REVERSE_BYTES_IN_ARRAY_32BIT" /\ prev.name = "SET_32_IN_ARRAY"
         /\ op.arg[1] = prev.arg[2] )
       => \A i \in 0..3 : data[op.arg[1] + i + 1] = ByteAt(prev.arg[1], i)
    /\ ( /\ op.name = "GET_16_IN_ARRAY" /\ prev.name = "REVERSE_BYTES_IN_ARRAY_16BIT"
         /\ op.arg = prev.arg )
       => /\ Len(ret) = 16
          /\ \A i \in 0..1 : ByteAt(ret, i) = prev.oldData[op.arg[1] + i + 1]
    /\ ( /\ op.name = "GET_32_IN_ARRAY" /\ prev.name = "REVERSE_BYTES_IN_ARRAY_32BIT"
         /\ op.arg = prev.arg )
       => /\ Len(ret) = 32
          /\ \A i \in 0..3 : ByteAt(ret, i) = prev.oldData[op.arg[1] + i + 1]

C23_Witness ==
    /\ op.name = "REVERSE_BYTES_IN_ARRAY_32BIT" /\ prev.name = "SET_32_IN_ARRAY"
    /\ prev.arg = <<WordOf(<<18, 52, 86, 120>>), 1>>
    /\ op.arg = <<1>>
    /\ data[2] = 120 /\ data[3] = 86 /\ data[4] = 52 /\ data[5] = 18

LogStatements == {"LIBOS_LOG_ERR", "LIBOS_LOG_WRN", "LIBOS_LOG_INF", "LIBOS_LOG_DBG"}

\* C24: a log statement that the compile-time filter keeps is printed: after
\* such a statement of a module registered with LIBOS_LOG_MODULE, the last line
\* of the output is its entry; with the default minimum INF an error is printed.
C24_KeptStatementIsPrinted ==
    (op.name \in LogStatements /\ Kept(op.arg[1], args.min)) =>
        /\ output # <<>>
        /\ output[Len(output)] = [module |-> args.tag.name,
                                  name |-> err_to_name(op.arg[1]),
                                  format |-> op.arg[2]]

\* C25: (the @retval documentation) for timestamps a # b, libos_time_is_later(a, b)
\* is true if b is later than a and false if b is earlier than a.
C25_IsLaterAsRetvalDocumented ==
    (op.name = "libos_time_is_later" /\ op.arg[1] # op.arg[2]) =>
        (ret <=> op.arg[2] > op.arg[1])

\* C26: LIBOS_ERR_RET_ARG_IN_RANGE makes the function return LIBOS_ERR_INVALID_ARG
\* iff value < range_min or value > range_max; for range_min <= value <= range_max
\* (bounds inclusive) it does not return and execution continues after the macro.
C26_ArgInRangeReturnsIffOutside ==
    op.name = "LIBOS_ERR_RET_ARG_IN_RANGE" =>
        LET v == op.arg[1]
            outside == v < op.arg[2] \/ v > op.arg[3]
        IN  /\ outside => pc = "returned" /\ ret = LIBOS_ERR_INVALID_ARG
            /\ ~outside => pc = "after check" /\ ret = <<>>

C26_Witness ==
    /\ op.name = "LIBOS_ERR_RET_ARG_IN_RANGE"
    /\ op.arg = <<3, -1, 3>>
    /\ pc = "after check"

\* C27: the array codec and the multi-byte combine agree on byte order: after
\* set_u16_be / set_u32_be of the combination of bytes b0, b1 (b0..b3) the buffer
\* holds these bytes from the offset on in argument order, and get_u16_be /
\* get_u32_be return the combination of the bytes at the offset, taken in order.
C27_ArrayCodecAgreesWithCombine ==
    /\ op.name = "SET_16_IN_ARRAY" =>
           LET v  == op.arg[1]
               o  == op.arg[2]
               b0 == ByteAt(v, 1)
               b1 == ByteAt(v, 0)
           IN  Eq(v, COMBINE_BYTES_16(Lit(b0), Lit(b1))) =>
                   data[o + 1] = b0 /\ data[o + 2] = b1
    /\ op.name = "SET_32_IN_ARRAY" =>
           LET v  == op.arg[1]
               o  == op.arg[2]
               b0 == ByteAt(v, 3)
               b1 == ByteAt(v, 2)
               b2 == ByteAt(v, 1)
               b3 == ByteAt(v, 0)
           IN  Eq(v, COMBINE_BYTES_32(Lit(b0), Lit(b1), Lit(b2), Lit(b3))) =>
                   /\ data[o + 1] = b0 /\ data[o + 2] = b1
                   /\ data[o + 3] = b2 /\ data[o + 4] = b3
    /\ op.name = "GET_16_IN_ARRAY" =>
           LET o == op.arg[1]
           IN  Eq(ret, COMBINE_BYTES_16(Lit(data[o + 1]), Lit(data[o + 2])))
    /\ op.name = "GET_32_IN_ARRAY" =>
           LET o == op.arg[1]
           IN  Eq(ret, COMBINE_BYTES_32(Lit(data[o + 1]), Lit(data[o + 2]),
                                        Lit(data[o + 3]), Lit(data[o + 4])))

\* the combination of 0x12, 0x34 has been stored at offset 1 of the test buffer
\* and read back from the bytes 0x11, 0x12 at offset 0
C27_Witness ==
    /\ op.name = "GET_16_IN_ARRAY" /\ op.arg = <<0>>
    /\ prev.name = "SET_16_IN_ARRAY"
    /\ prev.arg = <<Conv(COMBINE_BYTES_16(Lit(18), Lit(52)), 16), 1>>
    /\ prev.oldData = TestBuffer
    /\ data[2] = 18 /\ data[3] = 52
    /\ ret = WordOf(<<17, 18>>)

\* C28: on an 8-bit value v and a nibble argument n in 0..255 the nibble codec is
\* the mask codec with the masks 0x0F and 0xF0: get_lower_nibble(v) is
\* get_mask(v, 0x0F), get_upper_nibble(v) is get_mask(v, 0xF0) >> 4,
\* set_lower_nibble(v, n) leaves what set_masked_value(v, 0x0F, n) leaves and
\* set_upper_nibble(v, n) what set_masked_value(v, 0xF0, (n & 0x0F) << 4) leaves.
C28_NibbleCodecIsMaskCodec ==
    /\ op.name = "GET_LOWER_NIBBLE" => Eq(ret, GET_MASK(value, Lit(15)))
    /\ op.name = "GET_UPPER_NIBBLE" => Eq(ret, Shr(GET_MASK(value, Lit(240)), 4))
    /\ op.name = "SET_LOWER_NIBBLE" =>
           value = SET_MASKED_VALUE(op.oldValue, Lit(15), op.arg[1])
    /\ op.name = "SET_UPPER_NIBBLE" =>
           value = SET_MASKED_VALUE(op.oldValue, Lit(240),
                                    Shl(BitAnd(op.arg[1], Lit(15)), 4))

C28_Witness ==
    /\ op.name = "SET_UPPER_NIBBLE"
    /\ op.oldValue = FromNat(90, 8)
    /\ op.arg[1] = FromNat(207, 8)
    /\ value = FromNat(250, 8)

\* C29: when the callers serialise two set_u32_be of different values at one
\* offset, get_u32_be at that offset afterwards returns exactly the value written
\* last.  (Without serialisation the byte stores interleave; C29_Witness is a
\* state where the word read back is neither of the two values.)
C29_SerialisedLeavesLastValue ==
    (pc = "joined" /\ args.serialised) =>
        /\ prev.name = "SET_32_IN_ARRAY"
        /\ ret = prev.arg[1]

\* a torn word: the first thread stored two bytes, the second all four, then the
\* first its remaining two
C29_Witness ==
    /\ pc = "joined" /\ ~args.serialised
    /\ threads[1].val = WordOf(<<18, 52, 86, 120>>)
    /\ threads[2].val = WordOf(<<170, 187, 204, 221>>)
    /\ ret = WordOf(<<170, 187, 86, 120>>)
    /\ ret # threads[1].val /\ ret # threads[2].val

\* C30: SET_MASKED_VALUE invoked with the mask written as m1 | m2 leaves
\* (old & ~(m1 | m2)) | (new & (m1 | m2)), what it leaves for the precomputed
\* mask m = m1 | m2.
C30_MaskExpressionByValue ==
    op.name = "SET_MASKED_VALUE(value, m1 | m2, n)" =>
        value = SET_MASKED_VALUE(op.oldValue, BitOr(op.arg[1], op.arg[2]), op.arg[3])

====
